---- MODULE Spec2Model ----
(***************************************************************************)
(* StreamChangeCache (synapse/util/caches/stream_change_cache.py): the     *)
(* window _cache (stream position -> entity, a sortedcontainers            *)
(* SortedDict), the reverse index _entity_to_key, the low-water mark       *)
(* _earliest_known_stream_pos and the capacity _max_size, with the         *)
(* recording call entity_has_changed and the three queries.                *)
(***************************************************************************)
EXTENDS Integers, Sequences, FiniteSets, TLC

(***************************************************************************)
(* Bounds of the model.                                                    *)
(***************************************************************************)
MaxPos == 4          \* stream positions are 0..MaxPos
MaxSeed == 1         \* current_stream_pos given to the constructor: 0..MaxSeed
MaxSizeSteps == 6    \* max_size given to the constructor: 0, 5, .., 5 * MaxSizeSteps
MaxPrefill == 2      \* number of pairs in prefilled_cache
MaxNeg == 1          \* negative stream_pos arguments: -MaxNeg..-1
MaxArgPos == 1       \* stream_pos arguments of any type have values up to MaxArgPos
MaxCalls == 3        \* number of calls of a sequence recorded in two orders

Entities == {"room1", "room2", "room3"}
Positions == 0 .. MaxPos
Seeds == 0 .. MaxSeed
MaxSizeArgs == {5 * k : k \in 0 .. MaxSizeSteps}

(***************************************************************************)
(* CACHE_SIZE_FACTOR = float(os.environ.get("SYNAPSE_CACHE_FACTOR", 0.1)): *)
(* the default 0.1, as the fraction 1 / 10.                                *)
(***************************************************************************)
CACHE_SIZE_FACTOR_NUM == 1
CACHE_SIZE_FACTOR_DEN == 10

VARIABLES
    cache,                      \* self._cache: stream position -> entity
    entity_to_key,              \* self._entity_to_key: entity -> stream position
    earliest_known_stream_pos,  \* self._earliest_known_stream_pos
    max_size,                   \* self._max_size
    recorded,                   \* entity -> largest stream_pos ever passed to entity_has_changed
    last,                       \* the call that has just returned: its name, arguments and
                                \* result; "idle" once the caller has taken the result
    prefilled,                  \* a cache constructed with a prefilled_cache, and the items
                                \* of that prefilled_cache (where a construction is replayed)
    other,                      \* a second StreamChangeCache of the process (where there is one)
    running,                    \* the call of entity_has_changed in progress (where the call
                                \* is followed statement by statement)
    store                       \* the ReceiptsStore that owns the cache (where there is one)

vars == <<cache, entity_to_key, earliest_known_stream_pos, max_size, recorded, last,
          prefilled, other, running, store>>

(***************************************************************************)
(* Python and sortedcontainers helpers.                                    *)
(***************************************************************************)
max(a, b) == IF a >= b THEN a ELSE b

EmptyDict == [k \in {} |-> 0]

\* d[k] = v
DictSet(d, k, v) == [x \in DOMAIN d \cup {k} |-> IF x = k THEN v ELSE d[x]]

\* d.pop(k, None), the dictionary that is left
DictPop(d, k) == [x \in DOMAIN d \ {k} |-> d[x]]

\* len(d)
len(d) == Cardinality(DOMAIN d)

\* SortedDict.keys(): the keys in ascending order
RECURSIVE SortedSeq(_)
SortedSeq(S) ==
    IF S = {} THEN <<>>
    ELSE LET m == CHOOSE x \in S : \A y \in S : x <= y
         IN  <<m>> \o SortedSeq(S \ {m})

keys(d) == SortedSeq(DOMAIN d)

\* keys.bisect_right(x): the index after the last key <= x
bisect_right(ks, x) == Cardinality({i \in 1 .. Len(ks) : ks[i] <= x})

\* keys[i:]
slice_from(ks, i) == SubSeq(ks, i + 1, Len(ks))

\* the set of the elements of a sequence
Range(s) == {s[i] : i \in 1 .. Len(s)}

\* SortedDict.popitem() of sortedcontainers: with no argument it removes and
\* returns the item with the greatest key (last=True / index=-1)
popitem(d) ==
    LET k == CHOOSE x \in DOMAIN d : \A y \in DOMAIN d : y <= x
    IN  [k |-> k, r |-> d[k], rest |-> DictPop(d, k)]

\* int(max_size * CACHE_SIZE_FACTOR)
Capacity(max_size_arg) == (max_size_arg * CACHE_SIZE_FACTOR_NUM) \div CACHE_SIZE_FACTOR_DEN

(***************************************************************************)
(* The cache as a value: st.cache, st.entity_to_key, st.earliest,          *)
(* st.max_size, st.popped, the (k, r) pairs the eviction loop of the       *)
(* running call has popped so far, and st.raised, the exception the        *)
(* running call has raised ("none" while it has raised none).              *)
(***************************************************************************)
Self == [cache |-> cache, entity_to_key |-> entity_to_key,
         earliest |-> earliest_known_stream_pos, max_size |-> max_size,
         popped |-> <<>>, raised |-> "none"]

\* evict_loop without the assignment to _earliest_known_stream_pos
RECURSIVE evict_loop_no_mark(_)
evict_loop_no_mark(st) ==
    IF len(st.cache) > st.max_size
    THEN LET it == popitem(st.cache)
         IN  evict_loop_no_mark([st EXCEPT !.cache = it.rest,
                                           !.entity_to_key = DictPop(st.entity_to_key, it.r),
                                           !.popped = Append(st.popped, <<it.k, it.r>>)])
    ELSE st

\* evict_loop with the test len(self._cache) > self._max_size + 1
RECURSIVE evict_loop_off_by_one(_)
evict_loop_off_by_one(st) ==
    IF len(st.cache) > st.max_size + 1
    THEN LET it == popitem(st.cache)
         IN  evict_loop_off_by_one([st EXCEPT !.cache = it.rest,
                                              !.earliest = max(it.k, st.earliest),
                                              !.entity_to_key = DictPop(st.entity_to_key, it.r),
                                              !.popped = Append(st.popped, <<it.k, it.r>>)])
    ELSE st

\* evict_loop with the test len(self._cache) >= self._max_size
RECURSIVE evict_loop_at_capacity(_)
evict_loop_at_capacity(st) ==
    IF len(st.cache) >= st.max_size
    THEN IF st.cache = EmptyDict
         THEN [st EXCEPT !.raised = "KeyError"]
         ELSE LET it == popitem(st.cache)
              IN  evict_loop_at_capacity([st EXCEPT !.cache = it.rest,
                                                    !.earliest = max(it.k, st.earliest),
                                                    !.entity_to_key = DictPop(st.entity_to_key, it.r),
                                                    !.popped = Append(st.popped, <<it.k, it.r>>)])
    ELSE st

\* while len(self._cache) > self._max_size: popitem, raise the mark, drop r;
\* popitem() of an empty dict raises KeyError and ends the call
RECURSIVE evict_loop(_)
evict_loop(st) ==
    IF len(st.cache) > st.max_size
    THEN IF st.cache = EmptyDict
         THEN [st EXCEPT !.raised = "KeyError"]
         ELSE LET it == popitem(st.cache)
              IN  evict_loop([st EXCEPT !.cache = it.rest,
                                        !.earliest = max(it.k, st.earliest),
                                        !.entity_to_key = DictPop(st.entity_to_key, it.r),
                                        !.popped = Append(st.popped, <<it.k, it.r>>)])
    ELSE st

\* new_pos without max(stream_pos, old_pos): the new position overwrites
new_pos_overwrite(st, entity, stream_pos) == stream_pos

\* the position entity_has_changed stores: max(stream_pos, old_pos) when the
\* entity is tracked
new_pos(st, entity, stream_pos) ==
    IF entity \in DOMAIN st.entity_to_key
    THEN max(stream_pos, st.entity_to_key[entity])
    ELSE stream_pos

\* the window and reverse index after the insertion, before the eviction loop
insert_change(st, entity, stream_pos) ==
    LET pos == new_pos(st, entity, stream_pos)
        c1  == IF entity \in DOMAIN st.entity_to_key
               THEN DictPop(st.cache, st.entity_to_key[entity])
               ELSE st.cache
    IN  [st EXCEPT !.cache = DictSet(c1, pos, entity),
                   !.entity_to_key = DictSet(st.entity_to_key, entity, pos)]

\* is_new with >= in the place of >
is_new_or_equal(st, stream_pos) == stream_pos >= st.earliest

\* the guard of entity_has_changed
is_new(st, stream_pos) == stream_pos > st.earliest

\* entity_has_changed without the test stream_pos > mark and with the mark
\* assigned the popped key
RECURSIVE evict_loop_assign_key(_)
evict_loop_assign_key(st) ==
    IF len(st.cache) > st.max_size
    THEN LET it == popitem(st.cache)
         IN  evict_loop_assign_key([st EXCEPT !.cache = it.rest,
                                              !.earliest = it.k,
                                              !.entity_to_key = DictPop(st.entity_to_key, it.r),
                                              !.popped = Append(st.popped, <<it.k, it.r>>)])
    ELSE st

entity_has_changed_on_unguarded(st, entity, stream_pos) ==
    evict_loop_assign_key(insert_change(st, entity, stream_pos))

\* entity_has_changed that makes room before it inserts: it evicts while the
\* window is at capacity, then stores the change
entity_has_changed_on_evict_first(st, entity, stream_pos) ==
    IF is_new(st, stream_pos)
    THEN insert_change(evict_loop_at_capacity(st), entity, stream_pos)
    ELSE st

\* entity_has_changed(entity, stream_pos) applied to the cache st
entity_has_changed_on(st, entity, stream_pos) ==
    IF is_new(st, stream_pos)
    THEN evict_loop(insert_change(st, entity, stream_pos))
    ELSE st

\* the largest position passed for each entity in a recording call so far
note_recorded(rec, entity, stream_pos) ==
    DictSet(rec, entity, IF entity \in DOMAIN rec THEN max(rec[entity], stream_pos)
                         ELSE stream_pos)

(***************************************************************************)
(* The queries, as functions of the cache: the value returned and the      *)
(* counter of cache_counter the call increments.                           *)
(***************************************************************************)
\* has_entity_changed with <= in the place of < in the test against the
\* position of the entity
has_entity_changed_not_strict(st, entity, stream_pos) ==
    IF stream_pos < st.earliest
    THEN [ret |-> TRUE, counter |-> "misses"]
    ELSE IF entity \notin DOMAIN st.entity_to_key
    THEN [ret |-> FALSE, counter |-> "hits"]
    ELSE IF stream_pos <= st.entity_to_key[entity]
    THEN [ret |-> TRUE, counter |-> "misses"]
    ELSE [ret |-> FALSE, counter |-> "hits"]

\* has_entity_changed without the test against the mark
has_entity_changed_no_mark(st, entity, stream_pos) ==
    IF entity \notin DOMAIN st.entity_to_key
    THEN [ret |-> FALSE, counter |-> "hits"]
    ELSE IF stream_pos < st.entity_to_key[entity]
    THEN [ret |-> TRUE, counter |-> "misses"]
    ELSE [ret |-> FALSE, counter |-> "hits"]

has_entity_changed(st, entity, stream_pos) ==
    IF stream_pos < st.earliest
    THEN [ret |-> TRUE, counter |-> "misses"]
    ELSE IF entity \notin DOMAIN st.entity_to_key
    THEN [ret |-> FALSE, counter |-> "hits"]
    ELSE IF stream_pos < st.entity_to_key[entity]
    THEN [ret |-> TRUE, counter |-> "misses"]
    ELSE [ret |-> FALSE, counter |-> "hits"]

\* in_window with the mark taken one position too low
in_window_off_by_one(st, stream_pos) == stream_pos >= st.earliest - 1

\* the test of get_entities_changed and get_all_entities_changed
in_window(st, stream_pos) == stream_pos >= st.earliest

\* keys_after with bisect_left in the place of bisect_right
keys_after_bisect_left(st, stream_pos) ==
    LET ks == keys(st.cache)
    IN  slice_from(ks, Cardinality({i \in 1 .. Len(ks) : ks[i] < stream_pos}))

\* keys[i:] with i = keys.bisect_right(stream_pos)
keys_after(st, stream_pos) ==
    LET ks == keys(st.cache)
    IN  slice_from(ks, bisect_right(ks, stream_pos))

\* get_entities_changed that counts as has_entity_changed does: a miss when
\* it returns any entity
get_entities_changed_miss_if_changed(st, entities, stream_pos) ==
    IF in_window(st, stream_pos)
    THEN LET result == {st.cache[k] : k \in Range(keys_after(st, stream_pos))} \cap entities
         IN  [ret |-> result, counter |-> IF result = {} THEN "hits" ELSE "misses"]
    ELSE [ret |-> entities, counter |-> "misses"]

get_entities_changed(st, entities, stream_pos) ==
    IF in_window(st, stream_pos)
    THEN [ret |-> {st.cache[k] : k \in Range(keys_after(st, stream_pos))} \cap entities,
          counter |-> "hits"]
    ELSE [ret |-> entities, counter |-> "misses"]

\* get_all_entities_changed that lists the entities newest change first
get_all_entities_changed_reversed(st, stream_pos) ==
    IF in_window(st, stream_pos)
    THEN LET ks == keys_after(st, stream_pos)
         IN  [ret |-> [is_none |-> FALSE,
                       list |-> [i \in 1 .. Len(ks) |-> st.cache[ks[Len(ks) + 1 - i]]]],
              counter |-> "none"]
    ELSE [ret |-> [is_none |-> TRUE, list |-> <<>>], counter |-> "none"]

\* None is is_none = TRUE; a list is is_none = FALSE with the list
get_all_entities_changed(st, stream_pos) ==
    IF in_window(st, stream_pos)
    THEN LET ks == keys_after(st, stream_pos)
         IN  [ret |-> [is_none |-> FALSE, list |-> [i \in 1 .. Len(ks) |-> st.cache[ks[i]]]],
              counter |-> "none"]
    ELSE [ret |-> [is_none |-> TRUE, list |-> <<>>], counter |-> "none"]

(***************************************************************************)
(* Construction: __init__(name, current_stream_pos, max_size,              *)
(* prefilled_cache), with prefilled_cache.items() in the order `items`.    *)
(***************************************************************************)
\* prefill that stores each pair in the window and the reverse index itself,
\* without calling entity_has_changed
RECURSIVE prefill_direct(_, _)
prefill_direct(st, items) ==
    IF items = <<>> THEN st
    ELSE prefill_direct([st EXCEPT !.cache = DictSet(st.cache, items[1][2], items[1][1]),
                                   !.entity_to_key = DictSet(st.entity_to_key, items[1][1],
                                                             items[1][2])],
                        Tail(items))

\* for entity, stream_pos in prefilled_cache.items():
\*     self.entity_has_changed(entity, stream_pos)
RECURSIVE prefill(_, _)
prefill(st, items) ==
    IF items = <<>> THEN st
    ELSE prefill([entity_has_changed_on(st, items[1][1], items[1][2]) EXCEPT !.popped = <<>>],
                 Tail(items))

RECURSIVE prefill_recorded(_, _)
prefill_recorded(rec, items) ==
    IF items = <<>> THEN rec
    ELSE prefill_recorded(note_recorded(rec, items[1][1], items[1][2]), Tail(items))

init(current_stream_pos, max_size_arg, items) ==
    prefill([cache |-> EmptyDict, entity_to_key |-> EmptyDict,
             earliest |-> current_stream_pos, max_size |-> Capacity(max_size_arg),
             popped |-> <<>>, raised |-> "none"], items)

\* the orders in which a prefilled_cache of at most MaxPrefill pairs is iterated
PrefilledItems ==
    {s \in UNION {[1 .. n -> Entities \X Positions] : n \in 0 .. MaxPrefill} :
        \A i, j \in 1 .. Len(s) : i # j => s[i][1] # s[j][1]}

NoEntity == "-"

\* there is no such cache
NoCache == "-"

\* no call of entity_has_changed is in progress
NotRunning == [pc |-> "none"]

\* the cache is used on its own, outside a ReceiptsStore
NoStore == [constructed |-> FALSE]

Call(op, entity, entities, stream_pos, ret, counter) ==
    [op |-> op, entity |-> entity, entities |-> entities, stream_pos |-> stream_pos,
     ret |-> ret, counter |-> counter, raised |-> "none"]

\* a call that ended by raising err: it returns nothing
Raise(op, entity, entities, stream_pos, err) ==
    [Call(op, entity, entities, stream_pos, <<>>, "none") EXCEPT !.raised = err]

\* the cache StreamChangeCache(name, current_stream_pos, max_size_arg, items)
Constructed(current_stream_pos, max_size_arg, items) ==
    LET st == init(current_stream_pos, max_size_arg, items)
    IN  /\ cache = st.cache
        /\ entity_to_key = st.entity_to_key
        /\ earliest_known_stream_pos = st.earliest
        /\ max_size = st.max_size
        /\ recorded = prefill_recorded(EmptyDict, items)
        /\ last = [Call("__init__", NoEntity, {}, current_stream_pos, <<>>, "none")
                       EXCEPT !.raised = st.raised]

Init ==
    \E current_stream_pos \in Seeds, max_size_arg \in MaxSizeArgs, items \in PrefilledItems :
        /\ Constructed(current_stream_pos, max_size_arg, items)
        /\ prefilled = NoCache
        /\ other = NoCache
        /\ running = NotRunning
        /\ store = NoStore

(***************************************************************************)
(* The calls.  The cache is used from one cooperative thread and no method *)
(* yields, so calls do not overlap: a call is made when the result of the  *)
(* one before it has been taken (Return).                                  *)
(***************************************************************************)
Idle == Call("idle", NoEntity, {}, 0, <<>>, "none")

Ready == last.op \in {"__init__", "idle"}

EntityHasChangedCall(entity, stream_pos) ==
    LET st == entity_has_changed_on(Self, entity, stream_pos)
    IN  /\ Ready
        /\ cache' = st.cache
        /\ entity_to_key' = st.entity_to_key
        /\ earliest_known_stream_pos' = st.earliest
        /\ max_size' = st.max_size
        /\ recorded' = note_recorded(recorded, entity, stream_pos)
        /\ last' = [Call("entity_has_changed", entity, {}, stream_pos, st.popped, "none")
                        EXCEPT !.raised = st.raised]
        /\ UNCHANGED <<prefilled, other, running, store>>

HasEntityChangedCall(entity, stream_pos) ==
    LET r == has_entity_changed(Self, entity, stream_pos)
    IN  /\ Ready
        /\ last' = Call("has_entity_changed", entity, {}, stream_pos, r.ret, r.counter)
        /\ UNCHANGED <<cache, entity_to_key, earliest_known_stream_pos, max_size, recorded,
                     prefilled, other, running, store>>

GetEntitiesChangedCall(entities, stream_pos) ==
    LET r == get_entities_changed(Self, entities, stream_pos)
    IN  /\ Ready
        /\ last' = Call("get_entities_changed", NoEntity, entities, stream_pos, r.ret, r.counter)
        /\ UNCHANGED <<cache, entity_to_key, earliest_known_stream_pos, max_size, recorded,
                     prefilled, other, running, store>>

\* get_all_entities_changed that removes from the window the entries it returns
GetAllEntitiesChangedCall_draining(stream_pos) ==
    LET r == get_all_entities_changed(Self, stream_pos)
    IN  /\ Ready
        /\ last' = Call("get_all_entities_changed", NoEntity, {}, stream_pos, r.ret, r.counter)
        /\ cache' = [k \in {x \in DOMAIN cache : r.ret.is_none \/ x <= stream_pos} |-> cache[k]]
        /\ UNCHANGED <<entity_to_key, earliest_known_stream_pos, max_size, recorded,
                     prefilled, other, running, store>>

GetAllEntitiesChangedCall(stream_pos) ==
    LET r == get_all_entities_changed(Self, stream_pos)
    IN  /\ Ready
        /\ last' = Call("get_all_entities_changed", NoEntity, {}, stream_pos, r.ret, r.counter)
        /\ UNCHANGED <<cache, entity_to_key, earliest_known_stream_pos, max_size, recorded,
                     prefilled, other, running, store>>

\* the caller takes the result of the call
Return ==
    /\ ~Ready
    /\ last' = Idle
    /\ UNCHANGED <<cache, entity_to_key, earliest_known_stream_pos, max_size, recorded,
                     prefilled, other, running, store>>

Next ==
    \/ \E entity \in Entities, stream_pos \in Positions :
           EntityHasChangedCall(entity, stream_pos)
    \/ \E entity \in Entities, stream_pos \in Positions :
           HasEntityChangedCall(entity, stream_pos)
    \/ \E entities \in SUBSET Entities, stream_pos \in Positions :
           GetEntitiesChangedCall(entities, stream_pos)
    \/ \E stream_pos \in Positions :
           GetAllEntitiesChangedCall(stream_pos)
    \/ Return

Spec == Init /\ [][Next]_vars

(***************************************************************************)
(* The scenario of the specification's section 8: a cache built with seed  *)
(* position 0 and no prefill, of capacity 2 (max_size 20) or 3 (max_size   *)
(* 30), on which room1@5, room2@10 and room3@15 are recorded in this       *)
(* order, with queries at the positions 4, 7, 9 and 11 in between.         *)
(***************************************************************************)
ScenarioScript == <<<<"room1", 5>>, <<"room2", 10>>, <<"room3", 15>>>>
ScenarioMaxSizeArgs == {20, 30}
ScenarioQueryPositions == {4, 7, 9, 11}

InitScenario ==
    \E max_size_arg \in ScenarioMaxSizeArgs :
        /\ Constructed(0, max_size_arg, <<>>)
        /\ prefilled = NoCache
        /\ other = NoCache
        /\ running = NotRunning
        /\ store = NoStore

\* the next recording call of the script
ScenarioRecord ==
    LET i == len(recorded) + 1
    IN  /\ i <= Len(ScenarioScript)
        /\ EntityHasChangedCall(ScenarioScript[i][1], ScenarioScript[i][2])

NextScenario ==
    \/ ScenarioRecord
    \/ \E entity \in Entities, stream_pos \in ScenarioQueryPositions :
           HasEntityChangedCall(entity, stream_pos)
    \/ \E entities \in SUBSET Entities, stream_pos \in ScenarioQueryPositions :
           GetEntitiesChangedCall(entities, stream_pos)
    \/ \E stream_pos \in ScenarioQueryPositions :
           GetAllEntitiesChangedCall(stream_pos)
    \/ Return

SpecScenario == InitScenario /\ [][NextScenario]_vars

\* the script has been recorded in full
ScenarioRecorded == recorded = [e \in Entities |->
    IF e = "room1" THEN 5 ELSE IF e = "room2" THEN 10 ELSE 15]

(***************************************************************************)
(* Construction replayed: `prefilled` is the cache built with              *)
(* current_stream_pos and the items of a prefilled_cache; the cache of the *)
(* variables is built with the same current_stream_pos and max_size and no *)
(* prefilled_cache, and entity_has_changed is then called on it for each   *)
(* item, in the order of prefilled_cache.items().                          *)
(***************************************************************************)
InitReplay ==
    \E current_stream_pos \in Seeds, max_size_arg \in MaxSizeArgs, items \in PrefilledItems :
        /\ Constructed(current_stream_pos, max_size_arg, <<>>)
        /\ prefilled = [built |-> init(current_stream_pos, max_size_arg, items),
                        current_stream_pos |-> current_stream_pos,
                        items |-> items]
        /\ other = NoCache
        /\ running = NotRunning
        /\ store = NoStore

\* the items are those of a dict, one per entity, so len(recorded) of them
\* have been replayed
Replayed == len(recorded)

ReplayNext ==
    /\ Replayed < Len(prefilled.items)
    /\ EntityHasChangedCall(prefilled.items[Replayed + 1][1], prefilled.items[Replayed + 1][2])

NextReplay ==
    \/ ReplayNext
    \/ Return

SpecReplay == InitReplay /\ [][NextReplay]_vars

(***************************************************************************)
(* The calls with an argument of any type.  A stream_pos argument is a     *)
(* Python value: arg.type is the name of its type and arg.val its numeric  *)
(* value (True is 1, False is 0, the float 2.0 is 2).  Every method starts *)
(* with `assert type(stream_pos) is int`.                                  *)
(***************************************************************************)
PyTypes == {"int", "float", "bool"}

ArgValues == (0 - MaxNeg) .. MaxArgPos

StreamPosArgs ==
    {a \in [type : PyTypes, val : ArgValues] : a.type = "bool" => a.val \in {0, 1}}

\* isinstance(stream_pos, int) in the place of type(stream_pos) is int:
\* bool is a subclass of int
type_is_int_or_subclass(arg) == arg.type \in {"int", "bool"}

\* type(stream_pos) is int
type_is_int(arg) == arg.type = "int"

\* assert type(stream_pos) is int, failing: AssertionError before the body
AssertionFails(op, entity, entities, arg) ==
    /\ Ready
    /\ last' = Raise(op, entity, entities, arg.val, "AssertionError")
    /\ UNCHANGED <<cache, entity_to_key, earliest_known_stream_pos, max_size, recorded,
                     prefilled, other, running, store>>

EntityHasChangedArg(entity, arg) ==
    IF type_is_int(arg)
    THEN EntityHasChangedCall(entity, arg.val)
    ELSE AssertionFails("entity_has_changed", entity, {}, arg)

HasEntityChangedArg(entity, arg) ==
    IF type_is_int(arg)
    THEN HasEntityChangedCall(entity, arg.val)
    ELSE AssertionFails("has_entity_changed", entity, {}, arg)

GetEntitiesChangedArg(entities, arg) ==
    IF type_is_int(arg)
    THEN GetEntitiesChangedCall(entities, arg.val)
    ELSE AssertionFails("get_entities_changed", NoEntity, entities, arg)

GetAllEntitiesChangedArg(arg) ==
    IF type_is_int(arg)
    THEN GetAllEntitiesChangedCall(arg.val)
    ELSE AssertionFails("get_all_entities_changed", NoEntity, {}, arg)

NextArgs ==
    \/ \E entity \in Entities, arg \in StreamPosArgs :
           EntityHasChangedArg(entity, arg)
    \/ \E entity \in Entities, arg \in StreamPosArgs :
           HasEntityChangedArg(entity, arg)
    \/ \E entities \in SUBSET Entities, arg \in StreamPosArgs :
           GetEntitiesChangedArg(entities, arg)
    \/ \E arg \in StreamPosArgs :
           GetAllEntitiesChangedArg(arg)
    \/ Return

\* the cache is constructed with the default prefilled_cache={}
InitArgs ==
    \E current_stream_pos \in Seeds, max_size_arg \in MaxSizeArgs :
        /\ Constructed(current_stream_pos, max_size_arg, <<>>)
        /\ prefilled = NoCache
        /\ other = NoCache
        /\ running = NotRunning
        /\ store = NoStore

SpecArgs == InitArgs /\ [][NextArgs]_vars

(***************************************************************************)
(* Two caches in one process.  The dicts are objects of the heap: those of *)
(* the cache of the variables are SelfDicts, and `other` holds the names   *)
(* of its own dicts with their contents.  An assignment into a dict writes *)
(* the object, whichever cache names it.  Both caches are constructed with *)
(* the default prefilled_cache={}, which no method writes.                 *)
(***************************************************************************)
SelfDicts == [entity_to_key |-> 1, cache |-> 2]

\* the dicts as attributes of the class, shared by its instances
new_dicts_of_class(allocated) == SelfDicts

\* self._entity_to_key = {} and self._cache = sorteddict(): two new objects
new_dicts(allocated) == [entity_to_key |-> allocated + 1, cache |-> allocated + 2]

NotConstructed ==
    [constructed |-> FALSE, dicts |-> [entity_to_key |-> 0, cache |-> 0],
     cache |-> EmptyDict, entity_to_key |-> EmptyDict, earliest |-> 0, max_size |-> 0]

InitTwo ==
    \E current_stream_pos \in Seeds, max_size_arg \in MaxSizeArgs :
        /\ Constructed(current_stream_pos, max_size_arg, <<>>)
        /\ prefilled = NoCache
        /\ other = NotConstructed
        /\ running = NotRunning
        /\ store = NoStore

\* the entities and the positions of the calls on the two caches
OtherEntities == {"room1", "room2"}
OtherPositions == 0 .. MaxArgPos

\* the other cache as a value
Other == [cache |-> other.cache, entity_to_key |-> other.entity_to_key,
          earliest |-> other.earliest, max_size |-> other.max_size,
          popped |-> <<>>, raised |-> "none"]

\* the dicts `dicts` now hold st.cache and st.entity_to_key: so do the
\* variables, where they are the same objects
WriteDicts(dicts, st) ==
    /\ cache' = IF dicts.cache = SelfDicts.cache THEN st.cache ELSE cache
    /\ entity_to_key' = IF dicts.entity_to_key = SelfDicts.entity_to_key
                        THEN st.entity_to_key ELSE entity_to_key

OtherInit(current_stream_pos, max_size_arg) ==
    LET st == init(current_stream_pos, max_size_arg, <<>>)
        dicts == new_dicts(2)
    IN  /\ Ready
        /\ ~other.constructed
        /\ other' = [constructed |-> TRUE, dicts |-> dicts,
                     cache |-> st.cache, entity_to_key |-> st.entity_to_key,
                     earliest |-> st.earliest, max_size |-> st.max_size]
        /\ WriteDicts(dicts, st)
        /\ last' = Call("other.__init__", NoEntity, {}, current_stream_pos, <<>>, "none")
        /\ UNCHANGED <<earliest_known_stream_pos, max_size, recorded, prefilled, running, store>>

OtherEntityHasChanged(entity, stream_pos) ==
    LET st == entity_has_changed_on(Other, entity, stream_pos)
    IN  /\ Ready
        /\ other.constructed
        /\ other' = [other EXCEPT !.cache = st.cache, !.entity_to_key = st.entity_to_key,
                                  !.earliest = st.earliest]
        /\ WriteDicts(other.dicts, st)
        /\ last' = [Call("other.entity_has_changed", entity, {}, stream_pos, st.popped, "none")
                        EXCEPT !.raised = st.raised]
        /\ UNCHANGED <<earliest_known_stream_pos, max_size, recorded, prefilled, running, store>>

OtherHasEntityChanged(entity, stream_pos) ==
    LET r == has_entity_changed(Other, entity, stream_pos)
    IN  /\ Ready
        /\ other.constructed
        /\ last' = Call("other.has_entity_changed", entity, {}, stream_pos, r.ret, r.counter)
        /\ UNCHANGED <<cache, entity_to_key, earliest_known_stream_pos, max_size, recorded,
                       prefilled, other, running, store>>

OtherGetEntitiesChanged(entities, stream_pos) ==
    LET r == get_entities_changed(Other, entities, stream_pos)
    IN  /\ Ready
        /\ other.constructed
        /\ last' = Call("other.get_entities_changed", NoEntity, entities, stream_pos,
                        r.ret, r.counter)
        /\ UNCHANGED <<cache, entity_to_key, earliest_known_stream_pos, max_size, recorded,
                       prefilled, other, running, store>>

OtherGetAllEntitiesChanged(stream_pos) ==
    LET r == get_all_entities_changed(Other, stream_pos)
    IN  /\ Ready
        /\ other.constructed
        /\ last' = Call("other.get_all_entities_changed", NoEntity, {}, stream_pos,
                        r.ret, r.counter)
        /\ UNCHANGED <<cache, entity_to_key, earliest_known_stream_pos, max_size, recorded,
                       prefilled, other, running, store>>

NextTwo ==
    \/ \E entity \in OtherEntities, stream_pos \in OtherPositions :
           EntityHasChangedCall(entity, stream_pos)
    \/ \E entity \in OtherEntities, stream_pos \in OtherPositions :
           HasEntityChangedCall(entity, stream_pos)
    \/ \E entities \in SUBSET OtherEntities, stream_pos \in OtherPositions :
           GetEntitiesChangedCall(entities, stream_pos)
    \/ \E stream_pos \in OtherPositions :
           GetAllEntitiesChangedCall(stream_pos)
    \/ \E current_stream_pos \in Seeds, max_size_arg \in MaxSizeArgs :
           OtherInit(current_stream_pos, max_size_arg)
    \/ \E entity \in OtherEntities, stream_pos \in OtherPositions :
           OtherEntityHasChanged(entity, stream_pos)
    \/ \E entity \in OtherEntities, stream_pos \in OtherPositions :
           OtherHasEntityChanged(entity, stream_pos)
    \/ \E entities \in SUBSET OtherEntities, stream_pos \in OtherPositions :
           OtherGetEntitiesChanged(entities, stream_pos)
    \/ \E stream_pos \in OtherPositions :
           OtherGetAllEntitiesChanged(stream_pos)
    \/ Return

SpecTwo == InitTwo /\ [][NextTwo]_vars

(***************************************************************************)
(* entity_has_changed statement by statement.  `running` is the call in    *)
(* progress: its arguments, the statement it is at (pc), the cache as it   *)
(* was when the call began, and the locals stream_pos, k and r.  The       *)
(* scheduler can run another call only where the running one yields.       *)
(***************************************************************************)
StepPositions == 0 .. MaxArgPos

\* entity_has_changed with a yield between the insertion into the window and
\* the insertion into the reverse index
YieldPoints_after_window_insertion == {"set_index"}

\* the statements of entity_has_changed at which it yields: it has no yield,
\* and calls nothing that does
YieldPoints == {}

\* no call is in progress, or the one in progress has yielded
Scheduled == running.pc = "none" \/ running.pc \in YieldPoints

\* lines 110-112: the assert and the test against the mark
RecordBegin(entity, stream_pos) ==
    /\ Ready
    /\ running.pc = "none"
    /\ running' = [pc |-> IF is_new(Self, stream_pos) THEN "old_pos" ELSE "done",
                   entity |-> entity, arg |-> stream_pos, stream_pos |-> stream_pos,
                   before |-> Self, popped |-> <<>>, raised |-> "none"]
    /\ recorded' = note_recorded(recorded, entity, stream_pos)
    /\ UNCHANGED <<cache, entity_to_key, earliest_known_stream_pos, max_size, last,
                   prefilled, other, store>>

\* lines 113-116: old_pos = get(entity); stream_pos = max(stream_pos, old_pos);
\* self._cache.pop(old_pos, None)
RecordOldPos ==
    /\ running.pc = "old_pos"
    /\ running' = [running EXCEPT !.pc = "set_cache",
                                  !.stream_pos = new_pos(Self, running.entity, running.stream_pos)]
    /\ cache' = IF running.entity \in DOMAIN entity_to_key
                THEN DictPop(cache, entity_to_key[running.entity])
                ELSE cache
    /\ UNCHANGED <<entity_to_key, earliest_known_stream_pos, max_size, recorded, last,
                   prefilled, other, store>>

\* line 117: self._cache[stream_pos] = entity
RecordSetCache ==
    /\ running.pc = "set_cache"
    /\ running' = [running EXCEPT !.pc = "set_index"]
    /\ cache' = DictSet(cache, running.stream_pos, running.entity)
    /\ UNCHANGED <<entity_to_key, earliest_known_stream_pos, max_size, recorded, last,
                   prefilled, other, store>>

\* line 118: self._entity_to_key[entity] = stream_pos
RecordSetIndex ==
    /\ running.pc = "set_index"
    /\ running' = [running EXCEPT !.pc = "while"]
    /\ entity_to_key' = DictSet(entity_to_key, running.entity, running.stream_pos)
    /\ UNCHANGED <<cache, earliest_known_stream_pos, max_size, recorded, last,
                   prefilled, other, store>>

\* line 120: while len(self._cache) > self._max_size
RecordWhile ==
    /\ running.pc = "while"
    /\ running' = [running EXCEPT !.pc = IF len(cache) > max_size THEN "popitem" ELSE "done"]
    /\ UNCHANGED <<cache, entity_to_key, earliest_known_stream_pos, max_size, recorded, last,
                   prefilled, other, store>>

\* line 121: k, r = self._cache.popitem()
RecordPopitem ==
    /\ running.pc = "popitem"
    /\ IF cache = EmptyDict
       THEN /\ running' = [running EXCEPT !.pc = "done", !.raised = "KeyError"]
            /\ UNCHANGED cache
       ELSE LET it == popitem(cache)
            IN  /\ running' = [pc |-> "set_mark", entity |-> running.entity,
                               arg |-> running.arg, stream_pos |-> running.stream_pos,
                               before |-> running.before,
                               popped |-> Append(running.popped, <<it.k, it.r>>),
                               raised |-> "none", k |-> it.k, r |-> it.r]
                /\ cache' = it.rest
    /\ UNCHANGED <<entity_to_key, earliest_known_stream_pos, max_size, recorded, last,
                   prefilled, other, store>>

\* line 122: the mark = max(k, the mark)
RecordSetMark ==
    /\ running.pc = "set_mark"
    /\ running' = [running EXCEPT !.pc = "pop_index"]
    /\ earliest_known_stream_pos' = max(running.k, earliest_known_stream_pos)
    /\ UNCHANGED <<cache, entity_to_key, max_size, recorded, last, prefilled, other, store>>

\* line 123: self._entity_to_key.pop(r, None)
RecordPopIndex ==
    /\ running.pc = "pop_index"
    /\ running' = [running EXCEPT !.pc = "while"]
    /\ entity_to_key' = DictPop(entity_to_key, running.r)
    /\ UNCHANGED <<cache, earliest_known_stream_pos, max_size, recorded, last,
                   prefilled, other, store>>

\* the call returns (or raises) to its caller
RecordEnd ==
    /\ running.pc = "done"
    /\ running' = NotRunning
    /\ last' = [Call("entity_has_changed", running.entity, {}, running.arg,
                     running.popped, "none") EXCEPT !.raised = running.raised]
    /\ UNCHANGED <<cache, entity_to_key, earliest_known_stream_pos, max_size, recorded,
                   prefilled, other, store>>

InitSteps == InitArgs

NextSteps ==
    \/ \E entity \in Entities, stream_pos \in StepPositions :
           RecordBegin(entity, stream_pos)
    \/ RecordOldPos
    \/ RecordSetCache
    \/ RecordSetIndex
    \/ RecordWhile
    \/ RecordPopitem
    \/ RecordSetMark
    \/ RecordPopIndex
    \/ RecordEnd
    \/ \E entity \in Entities, stream_pos \in StepPositions :
           Scheduled /\ HasEntityChangedCall(entity, stream_pos)
    \/ \E entities \in SUBSET Entities, stream_pos \in StepPositions :
           Scheduled /\ GetEntitiesChangedCall(entities, stream_pos)
    \/ \E stream_pos \in StepPositions :
           Scheduled /\ GetAllEntitiesChangedCall(stream_pos)
    \/ Return

SpecSteps == InitSteps /\ [][NextSteps]_vars

(***************************************************************************)
(* Recording in two orders.  `prefilled.calls` is a sequence of            *)
(* entity_has_changed calls in which different entities never share a      *)
(* position, and `prefilled.reordered` the same calls with two of them     *)
(* exchanged.  The cache of the variables receives the calls in the first  *)
(* order and `other`, a cache constructed with the same arguments, in the  *)
(* second.                                                                 *)
(***************************************************************************)
OrderPositions == 1 .. MaxCalls

OrderCalls ==
    {s \in [1 .. MaxCalls -> OtherEntities \X OrderPositions] :
        \A i, j \in 1 .. MaxCalls : s[i][1] # s[j][1] => s[i][2] # s[j][2]}

\* the sequence s with its elements i and j exchanged
Swapped(s, i, j) ==
    [k \in 1 .. Len(s) |-> IF k = i THEN s[j] ELSE IF k = j THEN s[i] ELSE s[k]]

InitOrder ==
    \E current_stream_pos \in Seeds, max_size_arg \in MaxSizeArgs, calls \in OrderCalls :
        \E i, j \in 1 .. MaxCalls :
            /\ i < j
            /\ Constructed(current_stream_pos, max_size_arg, <<>>)
            /\ prefilled = [calls |-> calls, reordered |-> Swapped(calls, i, j)]
            /\ other = [cache |-> EmptyDict, entity_to_key |-> EmptyDict,
                        earliest |-> current_stream_pos]
            /\ running = NotRunning
            /\ store = NoStore

\* entity_has_changed is called for each element of prefilled.calls on the
\* cache of the variables and for each of prefilled.reordered on the other
RecordCalls ==
    LET st == prefill(Self, prefilled.calls)
        ot == prefill(Self, prefilled.reordered)
    IN  /\ last.op = "__init__"
        /\ cache' = st.cache
        /\ entity_to_key' = st.entity_to_key
        /\ earliest_known_stream_pos' = st.earliest
        /\ max_size' = st.max_size
        /\ recorded' = prefill_recorded(recorded, prefilled.calls)
        /\ other' = [cache |-> ot.cache, entity_to_key |-> ot.entity_to_key,
                     earliest |-> ot.earliest]
        /\ last' = [Call("entity_has_changed calls", NoEntity, {}, 0, <<>>, "none")
                        EXCEPT !.raised = st.raised]
        /\ UNCHANGED <<prefilled, running, store>>

NextOrder ==
    \/ RecordCalls
    \/ Return

SpecOrder == InitOrder /\ [][NextOrder]_vars

(***************************************************************************)
(* ReceiptsStore (synapse/storage/receipts.py): the table                  *)
(* receipts_linearized, the events the receipts point to, and the          *)
(* StreamChangeCache "ReceiptsRoomChangeCache" of the store, which is the  *)
(* cache of the variables.  `store` holds the table, the greatest stream   *)
(* id the id generator has handed out, and the callbacks the committed     *)
(* transaction has left to run.                                            *)
(***************************************************************************)
RoomIds == {"room1", "room2"}
UserIds == {"@a", "@b"}
ReceiptTypes == {"m.read"}

\* stream ids the id generator hands out while the store is followed
MaxToken == 3

\* rows of the events table: four events of room1 and one of room2; the
\* topological ordering and the stream ordering of an event are independent
events ==
    { [event_id |-> "$a", room_id |-> "room1", topological_ordering |-> 1, stream_ordering |-> 1],
      [event_id |-> "$b", room_id |-> "room1", topological_ordering |-> 1, stream_ordering |-> 2],
      [event_id |-> "$c", room_id |-> "room1", topological_ordering |-> 2, stream_ordering |-> 3],
      [event_id |-> "$d", room_id |-> "room1", topological_ordering |-> 1, stream_ordering |-> 4],
      [event_id |-> "$e", room_id |-> "room2", topological_ordering |-> 1, stream_ordering |-> 5] }

EventIds == {ev.event_id : ev \in events}

\* max_size=10000, the default the store constructs its cache with
DEFAULT_MAX_SIZE == 10000

\* The store passes no max_size.  With the default factor the window holds
\* 1000 rooms, and a server has more rooms than that; with two rooms the
\* same evictions need a window of no room or of one room, which is what a
\* small SYNAPSE_CACHE_FACTOR gives.
ReceiptsMaxSizes == {0, CACHE_SIZE_FACTOR_DEN, DEFAULT_MAX_SIZE}

\* the receipts of the table for (room_id, receipt_type, user_id)
receipts_of(receipts_linearized, room_id, receipt_type, user_id) ==
    {r \in receipts_linearized :
        r.room_id = room_id /\ r.receipt_type = receipt_type /\ r.user_id = user_id}

\* SELECT topological_ordering, stream_ordering, event_id FROM events
\* INNER JOIN receipts_linearized as r USING (event_id, room_id)
\* WHERE r.room_id = ? AND r.receipt_type = ? AND r.user_id = ?
select_orderings(receipts_linearized, room_id, receipt_type, user_id) ==
    {<<ev.topological_ordering, ev.stream_ordering, ev.event_id>> :
        ev \in {e \in events :
                  \E r \in receipts_of(receipts_linearized, room_id, receipt_type, user_id) :
                      r.event_id = e.event_id /\ r.room_id = e.room_id}}

\* _simple_select_one_txn(txn, table="events", keyvalues={"event_id": event_id})
simple_select_one_txn(event_id) == CHOOSE ev \in events : ev.event_id = event_id

\* the loop over results with the topological orderings compared by >=
more_recent_or_equal_topological(results, topological_ordering, stream_ordering) ==
    \E res \in results :
        \/ res[1] >= topological_ordering
        \/ res[1] = topological_ordering /\ res[2] >= stream_ordering

\* for to, so, _ in results: the loop returns False at the first receipt
\* that is for a more recent event
more_recent(results, topological_ordering, stream_ordering) ==
    \E res \in results :
        \/ res[1] > topological_ordering
        \/ res[1] = topological_ordering /\ res[2] >= stream_ordering

\* _simple_delete_txn(txn, table="receipts_linearized", keyvalues={room_id,
\* receipt_type, user_id})
simple_delete_txn(receipts_linearized, room_id, receipt_type, user_id) ==
    receipts_linearized \ receipts_of(receipts_linearized, room_id, receipt_type, user_id)

\* _simple_insert_txn(txn, table="receipts_linearized", values={...})
simple_insert_txn(receipts_linearized, stream_id, room_id, receipt_type, user_id, event_id) ==
    receipts_linearized \cup
        {[stream_id |-> stream_id, room_id |-> room_id, receipt_type |-> receipt_type,
          user_id |-> user_id, event_id |-> event_id]}

\* txn.call_after(self._receipts_stream_cache.entity_has_changed, room_id,
\* stream_id): the callback joins those of the transaction.  The other
\* callbacks of the function invalidate caches of query results and are
\* left out.
call_after(txn, room_id, stream_id) ==
    [txn EXCEPT !.after_callbacks = Append(@, [room_id |-> room_id, stream_id |-> stream_id])]

\* insert_linearized_receipt_txn that registers no callback for the stream
\* cache
insert_linearized_receipt_txn_no_call_after(txn, room_id, receipt_type, user_id, event_id, stream_id) ==
    LET t == txn
        results == select_orderings(t.receipts_linearized, room_id, receipt_type, user_id)
        res == simple_select_one_txn(event_id)
    IN  IF results # {} /\ more_recent(results, res.topological_ordering, res.stream_ordering)
        THEN [t EXCEPT !.ret = FALSE]
        ELSE [t EXCEPT !.receipts_linearized =
                           simple_insert_txn(
                               simple_delete_txn(@, room_id, receipt_type, user_id),
                               stream_id, room_id, receipt_type, user_id, event_id),
                       !.ret = TRUE]

\* insert_linearized_receipt_txn(txn, room_id, receipt_type, user_id,
\* event_id, data, stream_id): the callbacks are registered first, then the
\* receipts of the user are compared with the new event; txn.ret is the
\* value returned
insert_linearized_receipt_txn(txn, room_id, receipt_type, user_id, event_id, stream_id) ==
    LET t == call_after(txn, room_id, stream_id)
        results == select_orderings(t.receipts_linearized, room_id, receipt_type, user_id)
        res == simple_select_one_txn(event_id)
    IN  IF results # {} /\ more_recent(results, res.topological_ordering, res.stream_ordering)
        THEN [t EXCEPT !.ret = FALSE]
        ELSE [t EXCEPT !.receipts_linearized =
                           simple_insert_txn(
                               simple_delete_txn(@, room_id, receipt_type, user_id),
                               stream_id, room_id, receipt_type, user_id, event_id),
                       !.ret = TRUE]

\* the transaction runInteraction opens on the table
begin_txn(receipts_linearized) ==
    [receipts_linearized |-> receipts_linearized, after_callbacks |-> <<>>, ret |-> FALSE]

\* self._receipts_id_gen.get_next(): the next stream position of the
\* sequence
get_next(max_token) == max_token + 1

\* _get_linearized_receipts_for_rooms: SELECT * FROM receipts_linearized
\* WHERE room_id IN (room_ids) AND stream_id > from_key AND stream_id <=
\* to_key, or without the lower bound when from_key is None or 0
\* (`if from_key:`); the rows, batched by room
linearized_receipts_for_rooms(receipts_linearized, room_ids, to_key, from_key) ==
    LET rows == {r \in receipts_linearized :
                    /\ r.room_id \in room_ids
                    /\ r.stream_id <= to_key
                    /\ from_key # 0 => r.stream_id > from_key}
    IN  {[room_id |-> room_id,
          content |-> {<<r.event_id, r.receipt_type, r.user_id>> :
                          r \in {x \in rows : x.room_id = room_id}}] :
            room_id \in {r.room_id : r \in rows}}

\* get_linearized_receipts_for_rooms(room_ids, to_key, from_key): the rooms
\* go through the stream cache when from_key is given and not 0
get_linearized_receipts_for_rooms(st, receipts_linearized, room_ids, to_key, from_key) ==
    LET changed == IF from_key # 0
                   THEN get_entities_changed(st, room_ids, from_key).ret
                   ELSE room_ids
    IN  linearized_receipts_for_rooms(receipts_linearized, changed, to_key, from_key)

\* a call of the store that has returned
ReceiptCall(op, room_id, receipt_type, user_id, event_id, stream_id, room_ids, to_key, from_key, ret) ==
    [op |-> op, room_id |-> room_id, receipt_type |-> receipt_type, user_id |-> user_id,
     event_id |-> event_id, stream_id |-> stream_id, room_ids |-> room_ids, to_key |-> to_key,
     from_key |-> from_key, ret |-> ret, raised |-> "none"]

\* ReceiptsStore.__init__ on an empty database
InitReceipts ==
    \E max_size_arg \in ReceiptsMaxSizes :
        /\ Constructed(0, max_size_arg, <<>>)
        /\ prefilled = NoCache
        /\ other = NoCache
        /\ running = NotRunning
        /\ store = [constructed |-> TRUE, receipts_linearized |-> {}, max_token |-> 0,
                    after_callbacks |-> <<>>, max_size_arg |-> max_size_arg]

\* the process starts again: ReceiptsStore.__init__ builds a new cache at
\* get_max_token() over the table the database has kept
ReceiptsStoreInit ==
    LET st == init(store.max_token, store.max_size_arg, <<>>)
    IN  /\ Ready
        /\ store.after_callbacks = <<>>
        /\ store.max_token > 0
        /\ cache' = st.cache
        /\ entity_to_key' = st.entity_to_key
        /\ earliest_known_stream_pos' = st.earliest
        /\ max_size' = st.max_size
        /\ recorded' = EmptyDict
        /\ last' = Call("__init__", NoEntity, {}, store.max_token, <<>>, "none")
        /\ UNCHANGED <<prefilled, other, running, store>>

\* insert_receipt with one event id, up to the commit of the transaction of
\* runInteraction: the stream id is taken, insert_linearized_receipt_txn
\* runs, and what it wrote is committed whatever it returns
InsertReceipt(room_id, receipt_type, user_id, event_id) ==
    LET stream_id == get_next(store.max_token)
        txn == insert_linearized_receipt_txn(begin_txn(store.receipts_linearized), room_id,
                                             receipt_type, user_id, event_id, stream_id)
    IN  /\ Ready
        /\ store.after_callbacks = <<>>
        /\ store.max_token < MaxToken
        /\ simple_select_one_txn(event_id).room_id = room_id
        /\ store' = [store EXCEPT !.receipts_linearized = txn.receipts_linearized,
                                  !.max_token = stream_id,
                                  !.after_callbacks = txn.after_callbacks]
        /\ last' = ReceiptCall("insert_linearized_receipt_txn", room_id, receipt_type, user_id,
                               event_id, stream_id, {}, 0, 0, txn.ret)
        /\ UNCHANGED <<cache, entity_to_key, earliest_known_stream_pos, max_size, recorded,
                       prefilled, other, running>>

\* runInteraction after the commit: the callbacks of the transaction run in
\* the order of their registration, before the caller has the result
AfterCallback ==
    /\ store.after_callbacks # <<>>
    /\ LET cb == Head(store.after_callbacks)
           st == entity_has_changed_on(Self, cb.room_id, cb.stream_id)
       IN  /\ cache' = st.cache
           /\ entity_to_key' = st.entity_to_key
           /\ earliest_known_stream_pos' = st.earliest
           /\ max_size' = st.max_size
           /\ recorded' = note_recorded(recorded, cb.room_id, cb.stream_id)
           /\ store' = [store EXCEPT !.after_callbacks = Tail(@)]
           /\ last' = [last EXCEPT !.op = "insert_receipt"]
    /\ UNCHANGED <<prefilled, other, running>>

GetLinearizedReceiptsForRooms(room_ids, to_key, from_key) ==
    /\ Ready
    /\ store.after_callbacks = <<>>
    /\ last' = ReceiptCall("get_linearized_receipts_for_rooms", "-", "-", "-", "-", 0, room_ids,
                           to_key, from_key,
                           get_linearized_receipts_for_rooms(Self, store.receipts_linearized,
                                                             room_ids, to_key, from_key))
    /\ UNCHANGED <<cache, entity_to_key, earliest_known_stream_pos, max_size, recorded,
                   prefilled, other, running, store>>

\* the caller takes the result, once the callbacks have run
ReceiptsReturn ==
    /\ store.after_callbacks = <<>>
    /\ Return

NextReceipts ==
    \/ ReceiptsStoreInit
    \/ \E room_id \in RoomIds, receipt_type \in ReceiptTypes, user_id \in UserIds,
          event_id \in EventIds :
           InsertReceipt(room_id, receipt_type, user_id, event_id)
    \/ AfterCallback
    \/ \E room_ids \in SUBSET RoomIds, to_key \in 0 .. MaxToken, from_key \in 0 .. MaxToken :
           GetLinearizedReceiptsForRooms(room_ids, to_key, from_key)
    \/ ReceiptsReturn

SpecReceipts == InitReceipts /\ [][NextReceipts]_vars

(***************************************************************************)
(* Claims.  The state after a call is the state in which `last` names the  *)
(* call, its arguments and the value it returned.                          *)
(***************************************************************************)
Asked(op) == last.op = op /\ last.raised = "none"

\* the entities stored in the window at keys strictly greater than stream_pos
WindowAfter(stream_pos) == {cache[k] : k \in {x \in DOMAIN cache : x > stream_pos}}

\* the largest position recorded for entity is greater than stream_pos
ChangedAfter(entity, stream_pos) ==
    entity \in DOMAIN recorded /\ recorded[entity] > stream_pos

\* C1: no false negatives for has_entity_changed: a query has_entity_changed(e, p)
\* made after any sequence of recording calls returns True whenever the largest
\* position ever recorded for e is greater than p, whether e is still tracked
\* or was evicted.
C1_NoFalseNegativeHasEntityChanged ==
    Asked("has_entity_changed") /\ ChangedAfter(last.entity, last.stream_pos)
        => last.ret = TRUE

\* C1 witness: the query is about an entity that changed after the queried
\* position and is no longer tracked.
C1_Witness ==
    /\ Asked("has_entity_changed")
    /\ ChangedAfter(last.entity, last.stream_pos)
    /\ last.entity \notin DOMAIN entity_to_key
    /\ last.ret = TRUE

\* C2: no false negatives for get_entities_changed: every candidate whose
\* largest recorded position is greater than the queried position is in the
\* result, also when different entities were recorded at the same position.
C2_NoFalseNegativeGetEntitiesChanged ==
    Asked("get_entities_changed")
        => \A e \in last.entities : ChangedAfter(e, last.stream_pos) => e \in last.ret

\* C3: eviction removes the lowest keys first: after a recording call, every
\* key it popped is smaller than every key left in the window, the popped
\* entity is gone from the reverse index, and the mark is at least the key.
C3_EvictsLowestKeysFirst ==
    Asked("entity_has_changed")
        => \A i \in 1 .. Len(last.ret) :
               /\ \A k \in DOMAIN cache : last.ret[i][1] < k
               /\ last.ret[i][2] \notin DOMAIN entity_to_key
               /\ earliest_known_stream_pos >= last.ret[i][1]

\* C4: capacity bound: after construction, prefilling included, and after
\* every call, the window holds at most int(max_size * CACHE_SIZE_FACTOR)
\* entries.
C4_CapacityBound == len(cache) <= max_size

\* C4 witness: a recording call has just evicted, and the window is full.
C4_Witness ==
    /\ Asked("entity_has_changed")
    /\ last.ret # <<>>
    /\ max_size >= 1
    /\ len(cache) = max_size

\* C5: monotonic low-water mark: no call decreases
\* _earliest_known_stream_pos.
C5_MonotonicMark ==
    [][earliest_known_stream_pos' >= earliest_known_stream_pos]_vars

\* C5 witness: a recording call has evicted and raised the mark to the key
\* it popped, above the constructor's position.
C5_Witness ==
    /\ Asked("entity_has_changed")
    /\ last.ret # <<>>
    /\ earliest_known_stream_pos = last.ret[1][1]
    /\ earliest_known_stream_pos > MaxSeed

\* C6: window and reverse index are consistent: every tracked entity e has
\* window[reverse_index[e]] = e and no entity is the value of two window keys,
\* also when different entities are recorded at the same position.
C6_WindowIndexConsistent ==
    /\ \A e \in DOMAIN entity_to_key :
           entity_to_key[e] \in DOMAIN cache /\ cache[entity_to_key[e]] = e
    /\ \A k1, k2 \in DOMAIN cache : cache[k1] = cache[k2] => k1 = k2

\* the step is the call entity_has_changed(entity, stream_pos)
Records(entity, stream_pos) ==
    /\ last'.op = "entity_has_changed"
    /\ last'.entity = entity
    /\ last'.stream_pos = stream_pos
    /\ EntityHasChangedCall(entity, stream_pos)

\* C7: forward-only position per entity: entity_has_changed(e, p2) on an
\* entity tracked at p1 >= p2 leaves it tracked at p1; no call lowers the
\* position of an entity that stays tracked; and an entity that is tracked
\* again after an eviction is put above every position delivered for it
\* before.
C7_ForwardOnly ==
    [][/\ \A e \in Entities, p2 \in Positions :
              (/\ Records(e, p2)
               /\ e \in DOMAIN entity_to_key
               /\ p2 <= entity_to_key[e])
                  => /\ e \in DOMAIN entity_to_key'
                     /\ entity_to_key'[e] = entity_to_key[e]
       /\ \A e \in DOMAIN entity_to_key \cap DOMAIN entity_to_key' :
              entity_to_key'[e] >= entity_to_key[e]
       /\ \A e \in (DOMAIN recorded \cap DOMAIN entity_to_key') \ DOMAIN entity_to_key :
              entity_to_key'[e] > recorded[e]]_vars

\* C7 witness: the last call recorded a tracked entity at a position above
\* the mark and below the position it is tracked at.
C7_Witness ==
    /\ Asked("entity_has_changed")
    /\ last.entity \in DOMAIN entity_to_key
    /\ last.stream_pos > earliest_known_stream_pos
    /\ last.stream_pos < entity_to_key[last.entity]

\* C8: below-mark conservatism: for stream_pos below the mark,
\* get_entities_changed returns the candidate collection it was given and
\* get_all_entities_changed returns None, which is not the empty list.
C8_BelowMarkConservative ==
    /\ (Asked("get_entities_changed") /\ last.stream_pos < earliest_known_stream_pos)
           => last.ret = last.entities
    /\ (Asked("get_all_entities_changed") /\ last.stream_pos < earliest_known_stream_pos)
           => /\ last.ret.is_none
              /\ last.ret # [is_none |-> FALSE, list |-> <<>>]

\* C8 witness: get_entities_changed was asked below the mark, on a window
\* that is not empty, about candidates none of which is in the window after
\* the queried position.
C8_Witness ==
    /\ Asked("get_entities_changed")
    /\ last.stream_pos < earliest_known_stream_pos
    /\ len(cache) >= 1
    /\ last.entities # {}
    /\ last.entities \cap WindowAfter(last.stream_pos) = {}
    /\ last.ret = last.entities

\* C9, the rule: has_entity_changed(e, p) is True when p is below the mark,
\* otherwise False when e is not tracked, otherwise True exactly when the
\* position of e is strictly greater than p.
C9_HasEntityChangedRule ==
    Asked("has_entity_changed")
        => last.ret = (IF last.stream_pos < earliest_known_stream_pos THEN TRUE
                       ELSE IF last.entity \notin DOMAIN entity_to_key THEN FALSE
                       ELSE entity_to_key[last.entity] > last.stream_pos)

\* C9, the example: capacity 2, seed 0, room1@5, room2@10, room3@15, then
\* has_entity_changed(room1, 4) and (room2, 9) are True and (room2, 11) is
\* False.
C9_HasEntityChangedExample ==
    (Asked("has_entity_changed") /\ max_size = 2 /\ ScenarioRecorded)
        => /\ (last.entity = "room1" /\ last.stream_pos = 4) => last.ret = TRUE
           /\ (last.entity = "room2" /\ last.stream_pos = 9) => last.ret = TRUE
           /\ (last.entity = "room2" /\ last.stream_pos = 11) => last.ret = FALSE

\* C9: the result of has_entity_changed: the rule and the example.
C9_HasEntityChangedResult == C9_HasEntityChangedRule /\ C9_HasEntityChangedExample

\* C10: range-query correctness: for stream_pos at or above the mark,
\* get_entities_changed(S, stream_pos) is the set of the entities stored in the
\* window at keys strictly greater than stream_pos, intersected with S.
C10_RangeQuery ==
    (Asked("get_entities_changed") /\ last.stream_pos >= earliest_known_stream_pos)
        => last.ret = WindowAfter(last.stream_pos) \cap last.entities

\* C10 witness: the queried position is a key of the window whose entity is
\* a candidate and is left out, while a later entry is returned.
C10_Witness ==
    /\ Asked("get_entities_changed")
    /\ last.stream_pos >= earliest_known_stream_pos
    /\ last.stream_pos \in DOMAIN cache
    /\ cache[last.stream_pos] \in last.entities
    /\ cache[last.stream_pos] \notin last.ret
    /\ last.ret # {}

\* C10, the example: with the window {5: room1, 10: room2, 15: room3} and mark
\* 0, get_entities_changed({room1, room2, room3}, 7) is {room2, room3}.
C10_RangeQueryExample ==
    (/\ Asked("get_entities_changed")
     /\ DOMAIN cache = {5, 10, 15}
     /\ earliest_known_stream_pos = 0
     /\ last.entities = Entities
     /\ last.stream_pos = 7)
        => /\ cache[5] = "room1" /\ cache[10] = "room2" /\ cache[15] = "room3"
           /\ last.ret = {"room2", "room3"}

\* C10 example, reached: the query of the example has been made on that window.
C10_RangeQueryExampleReached ==
    /\ Asked("get_entities_changed")
    /\ DOMAIN cache = {5, 10, 15}
    /\ last.entities = Entities
    /\ last.stream_pos = 7

\* the window key at which entity is stored
KeyOf(entity) == CHOOSE k \in DOMAIN cache : cache[k] = entity

\* C11: ordering of get_all_entities_changed: for stream_pos at or above the
\* mark the call returns a list, not None, that holds exactly the entities at
\* window keys strictly greater than stream_pos, each once, in ascending order
\* of their keys.
C11_GetAllOrdered ==
    (Asked("get_all_entities_changed") /\ last.stream_pos >= earliest_known_stream_pos)
        => /\ ~last.ret.is_none
           /\ Range(last.ret.list) = WindowAfter(last.stream_pos)
           /\ Len(last.ret.list) = Cardinality({k \in DOMAIN cache : k > last.stream_pos})
           /\ \A i, j \in 1 .. Len(last.ret.list) :
                  i < j => /\ last.ret.list[i] # last.ret.list[j]
                           /\ KeyOf(last.ret.list[i]) < KeyOf(last.ret.list[j])

\* C11 witness: the list returned has two entities and the window has an
\* entry at the queried position, which is left out.
C11_Witness ==
    /\ Asked("get_all_entities_changed")
    /\ last.stream_pos >= earliest_known_stream_pos
    /\ last.stream_pos \in DOMAIN cache
    /\ Len(last.ret.list) >= 2

\* C12: a stale record is a no-op: entity_has_changed(e, p) with p at or
\* below the mark leaves the window, the reverse index and the mark unchanged,
\* for tracked and untracked e.
C12_StaleRecordNoOp ==
    [][\A e \in Entities, p \in Positions :
           (Records(e, p) /\ p <= earliest_known_stream_pos)
               => UNCHANGED <<cache, entity_to_key, earliest_known_stream_pos>>]_vars

\* C12 witness: the last call recorded a tracked entity at the mark itself,
\* above the position it is tracked at, and popped nothing.
C12_Witness ==
    /\ Asked("entity_has_changed")
    /\ last.ret = <<>>
    /\ last.stream_pos = earliest_known_stream_pos
    /\ last.entity \in DOMAIN entity_to_key
    /\ entity_to_key[last.entity] < last.stream_pos

\* C13 as stated: for every stream_pos at or before the mark, the mark itself
\* included, has_entity_changed returns True, get_entities_changed returns the
\* full candidate set and get_all_entities_changed returns None.
C13_AtOrBeforeMarkConservative ==
    /\ (Asked("has_entity_changed") /\ last.stream_pos <= earliest_known_stream_pos)
           => last.ret = TRUE
    /\ (Asked("get_entities_changed") /\ last.stream_pos <= earliest_known_stream_pos)
           => last.ret = last.entities
    /\ (Asked("get_all_entities_changed") /\ last.stream_pos <= earliest_known_stream_pos)
           => last.ret.is_none

\* C13 amended: for every stream_pos strictly before the mark,
\* has_entity_changed returns True, get_entities_changed returns the full
\* candidate set and get_all_entities_changed returns None.
C13_BeforeMarkConservative ==
    /\ (Asked("has_entity_changed") /\ last.stream_pos < earliest_known_stream_pos)
           => last.ret = TRUE
    /\ (Asked("get_entities_changed") /\ last.stream_pos < earliest_known_stream_pos)
           => last.ret = last.entities
    /\ (Asked("get_all_entities_changed") /\ last.stream_pos < earliest_known_stream_pos)
           => last.ret.is_none

\* C13 witness: has_entity_changed was asked before the mark about an entity
\* that was never recorded, and answered True.
C13_Witness ==
    /\ Asked("has_entity_changed")
    /\ last.stream_pos < earliest_known_stream_pos
    /\ last.entity \notin DOMAIN recorded
    /\ last.ret = TRUE

\* the four methods that take a stream_pos
Methods == {"entity_has_changed", "has_entity_changed", "get_entities_changed",
            "get_all_entities_changed"}

\* C14: negative positions are rejected: a call of one of the four methods
\* with a negative integer stream_pos fails with an error.
C14_NegativeRejected ==
    (last.op \in Methods /\ last.stream_pos < 0) => last.raised # "none"

\* the step rejected its call: AssertionError, no counter incremented, and
\* the window, the reverse index and the mark as they were
Rejected ==
    /\ last'.raised = "AssertionError"
    /\ last'.counter = "none"
    /\ UNCHANGED <<cache, entity_to_key, earliest_known_stream_pos>>

\* C15: non-integer positions are rejected: a call of one of the four methods
\* with a stream_pos whose type is not int fails, and leaves the window, the
\* reverse index, the mark and the hit and miss counters unchanged.
C15_NonIntRejected ==
    [][\A arg \in StreamPosArgs :
           arg.type # "int"
               => /\ \A e \in Entities : EntityHasChangedArg(e, arg) => Rejected
                  /\ \A e \in Entities : HasEntityChangedArg(e, arg) => Rejected
                  /\ \A S \in SUBSET Entities : GetEntitiesChangedArg(S, arg) => Rejected
                  /\ GetAllEntitiesChangedArg(arg) => Rejected]_vars

\* C15 witness: entity_has_changed was rejected with a value above the mark,
\* for an entity that is not tracked, on a window that is not empty.
C15_Witness ==
    /\ last.op = "entity_has_changed"
    /\ last.raised = "AssertionError"
    /\ last.stream_pos > earliest_known_stream_pos
    /\ last.entity \notin DOMAIN entity_to_key
    /\ len(cache) >= 1

\* C16: entity_has_changed never fails and always terminates: every call with
\* a non-negative integer position returns without raising, its eviction
\* loop pops at most one entry, and it leaves the window within capacity, also
\* when the capacity is 0.
C16_RecordNeverFails ==
    last.op = "entity_has_changed"
        => /\ last.raised = "none"
           /\ Len(last.ret) <= 1
           /\ len(cache) <= max_size

\* C16 witness: with capacity 0, the call inserted its entry and the loop
\* popped it again, leaving the window empty.
C16_Witness ==
    /\ last.op = "entity_has_changed"
    /\ last.raised = "none"
    /\ max_size = 0
    /\ Len(last.ret) = 1
    /\ last.ret[1] = <<last.stream_pos, last.entity>>
    /\ cache = EmptyDict

\* the three query methods
Queries == {"has_entity_changed", "get_entities_changed", "get_all_entities_changed"}

\* C17: queries are read-only: a step that is a call of has_entity_changed,
\* get_entities_changed or get_all_entities_changed leaves the window, the
\* reverse index and the mark unchanged, and every step that changes one of
\* them is a call of entity_has_changed.
C17_QueriesReadOnly ==
    [][/\ last'.op \in Queries
              => UNCHANGED <<cache, entity_to_key, earliest_known_stream_pos>>
       /\ ~UNCHANGED <<cache, entity_to_key, earliest_known_stream_pos>>
              => last'.op = "entity_has_changed"]_vars

\* C17 witness: get_all_entities_changed has returned entries of the window,
\* and they are still in the window.
C17_Witness ==
    /\ Asked("get_all_entities_changed")
    /\ ~last.ret.is_none
    /\ Len(last.ret.list) >= 1
    /\ WindowAfter(last.stream_pos) = Range(last.ret.list)

\* C18: construction: a cache built with current_stream_pos = P and a
\* prefilled_cache M is in the state of a cache built with P and no prefill on
\* which entity_has_changed(e, M[e]) was then called for each e of M, in the
\* order of M.items(); with no prefill the window and the reverse index are
\* empty and the mark is P; the prefilled pairs with position <= P are not
\* tracked.
C18_ConstructionIsReplay ==
    /\ Replayed = Len(prefilled.items)
           => /\ cache = prefilled.built.cache
              /\ entity_to_key = prefilled.built.entity_to_key
              /\ earliest_known_stream_pos = prefilled.built.earliest
              /\ max_size = prefilled.built.max_size
    /\ last.op = "__init__"
           => /\ cache = EmptyDict
              /\ entity_to_key = EmptyDict
              /\ earliest_known_stream_pos = last.stream_pos
              /\ last.stream_pos = prefilled.current_stream_pos
    /\ \A i \in 1 .. Len(prefilled.items) :
           prefilled.items[i][2] <= prefilled.current_stream_pos
               => /\ prefilled.items[i][1] \notin DOMAIN prefilled.built.entity_to_key
                  /\ prefilled.items[i][1] \notin Range(
                         [k \in 1 .. Len(keys(prefilled.built.cache)) |->
                              prefilled.built.cache[keys(prefilled.built.cache)[k]]])

\* C18 witness: two pairs have been replayed, one of them at or below P and
\* one of them tracked.
C18_Witness ==
    /\ Len(prefilled.items) = 2
    /\ Replayed = 2
    /\ last.op = "entity_has_changed"
    /\ \E i \in 1 .. 2 : prefilled.items[i][2] <= prefilled.current_stream_pos
    /\ prefilled.built.entity_to_key # EmptyDict
    /\ cache = prefilled.built.cache

\* the calls on the other cache
OtherCalls == {"other.__init__", "other.entity_has_changed", "other.has_entity_changed",
               "other.get_entities_changed", "other.get_all_entities_changed"}

\* C19: instance isolation: constructing the other cache, and every
\* entity_has_changed or query call on it, leaves the window, the reverse
\* index and the mark of this cache unchanged, and every call on this cache
\* leaves those of the other unchanged.
C19_InstanceIsolation ==
    [][/\ last'.op \in OtherCalls
              => UNCHANGED <<cache, entity_to_key, earliest_known_stream_pos>>
       /\ last'.op \in Methods => UNCHANGED other]_vars

\* C19 witness: the other cache has just recorded a change that this cache
\* does not hold, while this cache holds a change that the other does not.
C19_Witness ==
    /\ last.op = "other.entity_has_changed"
    /\ last.entity \in DOMAIN other.entity_to_key
    /\ last.entity \notin DOMAIN entity_to_key
    /\ \E e \in DOMAIN entity_to_key : e \notin DOMAIN other.entity_to_key

\* every window entry is the entry of its entity in the reverse index
WindowIndexed ==
    \A k \in DOMAIN cache :
        cache[k] \in DOMAIN entity_to_key /\ entity_to_key[cache[k]] = k

\* C20: atomicity under cooperative scheduling: a query never runs while a
\* call of entity_has_changed is in progress, so the state it answers from has
\* every window entry in the reverse index and the window within capacity; and
\* a call of entity_has_changed that has run its statements has made the
\* change of the whole call on the state in which it began.
C20_RecordIsAtomic ==
    /\ last.op \in Queries
           => /\ running.pc = "none"
              /\ WindowIndexed
              /\ len(cache) <= max_size
    /\ running.pc = "done"
           => LET st == entity_has_changed_on(running.before, running.entity, running.arg)
              IN  /\ cache = st.cache
                  /\ entity_to_key = st.entity_to_key
                  /\ earliest_known_stream_pos = st.earliest
                  /\ running.popped = st.popped
                  /\ running.raised = st.raised

\* C20 witness: a call of entity_has_changed has put its entry in the window
\* and not yet in the reverse index, and the window is over capacity.
C20_Witness ==
    /\ running.pc = "set_index"
    /\ ~WindowIndexed
    /\ len(cache) > max_size

\* C21: hit/miss accounting of has_entity_changed: each call increments one
\* counter, the miss counter exactly when stream_pos is below the mark and the
\* hit counter whenever the answer comes from the reverse index, True or
\* False.
C21_HasEntityChangedAccounting ==
    Asked("has_entity_changed")
        => last.counter = (IF last.stream_pos < earliest_known_stream_pos
                           THEN "misses" ELSE "hits")

\* C22: hit/miss accounting of get_entities_changed: each call increments
\* one counter once, whatever the number of candidates: the hit counter when
\* stream_pos is at or above the mark, the miss counter otherwise.
C22_GetEntitiesChangedAccounting ==
    Asked("get_entities_changed")
        => last.counter = (IF last.stream_pos >= earliest_known_stream_pos
                           THEN "hits" ELSE "misses")

\* C22 witness: a query with two candidates, answered from the window with
\* one of them, has incremented the hit counter.
C22_Witness ==
    /\ Asked("get_entities_changed")
    /\ last.stream_pos >= earliest_known_stream_pos
    /\ Cardinality(last.entities) = 2
    /\ Cardinality(last.ret) = 1
    /\ last.counter = "hits"

\* C23: every query is counted: each call of has_entity_changed,
\* get_entities_changed or get_all_entities_changed increments the hit or the
\* miss counter of the cache's name.
C23_EveryQueryCounted ==
    (last.op \in Queries /\ last.raised = "none") => last.counter \in {"hits", "misses"}

\* C24: the window lies strictly above the mark: every key of the window and
\* every position of the reverse index is strictly greater than
\* _earliest_known_stream_pos.
C24_WindowAboveMark ==
    /\ \A k \in DOMAIN cache : k > earliest_known_stream_pos
    /\ \A e \in DOMAIN entity_to_key : entity_to_key[e] > earliest_known_stream_pos

\* C25: no false negatives for get_all_entities_changed: when the call
\* returns a list and not None, the list holds every entity whose largest
\* recorded position is greater than the queried position.
C25_NoFalseNegativeGetAll ==
    (Asked("get_all_entities_changed") /\ ~last.ret.is_none)
        => \A e \in Entities :
               ChangedAfter(e, last.stream_pos) => e \in Range(last.ret.list)

\* C26: exactness at or above the mark: for a queried position at or above
\* the mark, has_entity_changed(e, p) is True if and only if entity_has_changed
\* was called for e with a position greater than p.
C26_ExactAtOrAboveMark ==
    (Asked("has_entity_changed") /\ last.stream_pos >= earliest_known_stream_pos)
        => (last.ret = TRUE <=> ChangedAfter(last.entity, last.stream_pos))

\* C26 witness: the query, at or above the mark, is about an entity recorded
\* at or below the queried position and at no greater one, and the answer is
\* False.
C26_Witness ==
    /\ Asked("has_entity_changed")
    /\ last.stream_pos >= earliest_known_stream_pos
    /\ last.entity \in DOMAIN recorded
    /\ last.entity \in DOMAIN entity_to_key
    /\ recorded[last.entity] = last.stream_pos
    /\ last.ret = FALSE

\* C27: the two membership queries agree: in every state, for every entity e
\* and position p, has_entity_changed(e, p) is True if and only if e is in
\* get_entities_changed({e}, p).
C27_MembershipQueriesAgree ==
    \A e \in Entities, p \in Positions :
        has_entity_changed(Self, e, p).ret = TRUE
            <=> e \in get_entities_changed(Self, {e}, p).ret

\* C28: the reverse index is bounded like the window: its key set is the set
\* of the window's values and it has as many entries as the window.
C28_IndexMatchesWindow ==
    /\ DOMAIN entity_to_key = {cache[k] : k \in DOMAIN cache}
    /\ len(entity_to_key) = len(cache)

\* C29: order independence of recording: calls of entity_has_changed in
\* which different entities never share a position leave the same window,
\* reverse index and mark in whatever order they are applied to a cache.
C29_OrderIndependent ==
    last.op = "entity_has_changed calls"
        => /\ cache = other.cache
           /\ entity_to_key = other.entity_to_key
           /\ earliest_known_stream_pos = other.earliest

\* C30: idempotence of recording: after a call entity_has_changed(e, p), the
\* same call again leaves the window, the reverse index and the mark as the
\* first call left them, also when the first call evicted.
C30_RecordIdempotent ==
    Asked("entity_has_changed")
        => LET st == entity_has_changed_on(Self, last.entity, last.stream_pos)
           IN  /\ st.cache = cache
               /\ st.entity_to_key = entity_to_key
               /\ st.earliest = earliest_known_stream_pos
               /\ st.raised = "none"

\* C30 witness: the first call stored its entity and evicted another one.
C30_Witness ==
    /\ Asked("entity_has_changed")
    /\ Len(last.ret) = 1
    /\ last.ret[1][2] # last.entity
    /\ last.entity \in DOMAIN entity_to_key
    /\ cache # EmptyDict

\* the greatest of current_stream_pos and the positions recorded so far
GreatestRecorded(current_stream_pos) ==
    LET S == {current_stream_pos} \cup {recorded[e] : e \in DOMAIN recorded}
    IN  CHOOSE x \in S : \A y \in S : y <= x

\* C31: zero capacity: when int(max_size * CACHE_SIZE_FACTOR) is 0, the
\* window and the reverse index are empty after construction and after every
\* call, the mark is the greatest of the constructor's position and the
\* positions recorded so far (it is so after construction, and every recording
\* call raises it to its position), and has_entity_changed is True for an
\* entity that changed after the queried position.
C31_ZeroCapacity ==
    /\ [](max_size = 0
             => /\ cache = EmptyDict
                /\ entity_to_key = EmptyDict
                /\ last.op = "__init__"
                       => earliest_known_stream_pos = GreatestRecorded(last.stream_pos)
                /\ \A e \in DOMAIN recorded : recorded[e] <= earliest_known_stream_pos
                /\ (Asked("has_entity_changed") /\ ChangedAfter(last.entity, last.stream_pos))
                       => last.ret = TRUE)
    /\ [][\A e \in Entities, p \in Positions :
              (max_size = 0 /\ Records(e, p))
                  => earliest_known_stream_pos' = max(earliest_known_stream_pos, p)]_vars

\* C31 witness: with capacity 0, has_entity_changed was asked about an entity
\* recorded after the queried position, and the mark is the position of that
\* record, above the constructor's.
C31_Witness ==
    /\ max_size = 0
    /\ Asked("has_entity_changed")
    /\ ChangedAfter(last.entity, last.stream_pos)
    /\ earliest_known_stream_pos = recorded[last.entity]
    /\ earliest_known_stream_pos > MaxSeed
    /\ last.ret = TRUE


\* the step is a call of insert_linearized_receipt_txn, whose arguments and
\* result are in last'
InsertsReceipt == last'.op = "insert_linearized_receipt_txn" /\ Ready

\* the rows of table for the (room_id, receipt_type, user_id) of call
RowsOfCall(table, call) ==
    {r \in table : /\ r.room_id = call.room_id
                   /\ r.receipt_type = call.receipt_type
                   /\ r.user_id = call.user_id}

\* the row of the events table for event_id
EventOf(event_id) == CHOOSE ev \in events : ev.event_id = event_id

\* event x is not older than event y: its topological ordering is greater,
\* or equal with a stream ordering that is not smaller
NotOlder(x, y) ==
    \/ x.topological_ordering > y.topological_ordering
    \/ /\ x.topological_ordering = y.topological_ordering
       /\ x.stream_ordering >= y.stream_ordering

InformsCache ==
    /\ store.after_callbacks # <<>>
    /\ store'.after_callbacks = Tail(store.after_callbacks)

\* C33: writer-path ordering.  When the receipts cache is informed
\* entity_has_changed(room_id, stream_id), storage has committed a receipt
\* of that room at that stream position; so a call of
\* insert_linearized_receipt_txn that returned False, and persisted
\* nothing, is followed by no notification.
C33_InformedOfCommittedChange ==
    [][InformsCache =>
          LET cb == Head(store.after_callbacks)
          IN  \E r \in store.receipts_linearized :
                  r.room_id = cb.room_id /\ r.stream_id = cb.stream_id]_vars


\* the rows of the table a query for room_ids between from_key (exclusive;
\* no lower bound when it is 0 or None) and to_key (inclusive) is about
ReceiptsBetween(room_ids, to_key, from_key) ==
    {r \in store.receipts_linearized :
        /\ r.room_id \in room_ids
        /\ r.stream_id <= to_key
        /\ from_key # 0 => r.stream_id > from_key}

\* C32: the cache is only an accelerator for receipt reads.  After any
\* history of committed receipt inserts, each followed by its cache
\* notification, and for every room_ids, from_key and to_key,
\* get_linearized_receipts_for_rooms returns what it returns when the room
\* set does not go through get_entities_changed: every receipt of the rooms
\* asked for with a stream_id in (from_key, to_key] is in the result.
C32_CacheOnlyAccelerates ==
    last.op = "get_linearized_receipts_for_rooms"
        => /\ last.ret = linearized_receipts_for_rooms(store.receipts_linearized, last.room_ids,
                                                       last.to_key, last.from_key)
           /\ \A r \in ReceiptsBetween(last.room_ids, last.to_key, last.from_key) :
                  \E batch \in last.ret :
                      /\ batch.room_id = r.room_id
                      /\ <<r.event_id, r.receipt_type, r.user_id>> \in batch.content

\* a query for both rooms that the cache has answered from its window
\* (from_key is not below the mark): room1, whose receipt is at or before
\* from_key, was filtered out, and the receipt of room2 after from_key was
\* returned
C32_Witness ==
    /\ last.op = "get_linearized_receipts_for_rooms"
    /\ last.room_ids = RoomIds
    /\ last.from_key > 0
    /\ last.from_key >= earliest_known_stream_pos
    /\ get_entities_changed(Self, last.room_ids, last.from_key).ret = {"room2"}
    /\ \E r \in store.receipts_linearized : r.room_id = "room1"
    /\ {batch.room_id : batch \in last.ret} = {"room2"}

====
